---------------------------- MODULE Spec2Model ----------------------------
(***************************************************************************)
(* Skill Execution Tracker: the localStorage store, the useSkills/useLogs  *)
(* hooks with their persistence effects, the page's handlers               *)
(* (Index, SkillForm, ExecutionLogger, WeeklyReport) and the weekly report *)
(* engine with the date utilities it rests on.                             *)
(*                                                                         *)
(* Numbers: the percentages are JavaScript doubles in the source.  They    *)
(* are modelled as exact rationals in lowest terms; the 1-ulp rounding of  *)
(* a few quotients (11/20*100 = 55.00000000000001) is below the model's    *)
(* resolution.                                                             *)
(* Strings: a date string is the sequence of its UTF-16 code units, so     *)
(* that formatting, parsing and the relational operators on strings are    *)
(* computed as the code computes them.                                     *)
(***************************************************************************)
EXTENDS Integers, Sequences, FiniteSets, TLC

VARIABLES
    storeSkills,     \* localStorage['skill-tracker-skills'], decoded
    storeLogs,       \* localStorage['skill-tracker-logs'], decoded
    skills,          \* useSkills: the skills state
    logs,            \* useLogs: the logs state
    skillsDirty,     \* useSkills' effect [skills] is pending
    logsDirty,       \* useLogs' effect [logs] is pending
    editingSkill,    \* Index: the skill being edited, or NULL
    deleteConfirm,   \* Index: the id awaiting delete confirmation, or NULL
    activeTab,       \* Index: "report" or "log"
    selectedSkillId, \* ExecutionLogger: the select's value, or ""
    feedback,        \* ExecutionLogger: the feedback shown, or NULL
    timers,          \* ExecutionLogger: pending setTimeout callbacks
    report,          \* WeeklyReport: the memoised report, or NULL (unmounted)
    today,           \* the clock: the Date that new Date() returns
    skillsMade,      \* skills created so far in the session
    logsMade,        \* logs created so far in the session
    storageFull      \* localStorage.setItem throws (quota exceeded)

vars == <<storeSkills, storeLogs, skills, logs, skillsDirty, logsDirty,
          editingSkill, deleteConfirm, activeTab, selectedSkillId, feedback,
          timers, report, today, skillsMade, logsMade, storageFull>>

\* null / undefined / NaN / '' : the empty option; a present value v is <<v>>
NULL == <<>>

--------------------------------------------------------------------------
(* Bounds of the model *)

\* skills created in one session
MaxSkillsMade == 2
\* logs created in one session
MaxLogsMade == 2
\* highest count a quick-log increment may reach
MaxCount == 2
\* feedback timers pending at once
MaxTimers == 2
\* skills in a store that a page load finds
MaxStoredSkills == 2
\* logs in a store that a page load finds
MaxStoredLogs == 2

--------------------------------------------------------------------------
(* JavaScript runtime: Date on the local calendar, String, Array helpers *)

\* A Date is [day |-> days since 1970-01-01 (local), ms |-> ms within the day].
EndOfDayMs == 86399999

\* new Date(year, monthIndex, day) at local midnight; monthIndex is 0-based and
\* day may lie outside the month (the runtime normalises it).
DaysFromCivil(year, monthIndex, dayOfMonth) ==
    LET m   == monthIndex + 1
        y   == IF m <= 2 THEN year - 1 ELSE year
        era == y \div 400
        yoe == y - era * 400
        mp  == IF m > 2 THEN m - 3 ELSE m + 9
        doy == (153 * mp + 2) \div 5
        doe == yoe * 365 + yoe \div 4 - yoe \div 100 + doy
    IN  era * 146097 + doe - 719468 + (dayOfMonth - 1)

\* The calendar fields of a day number: [y, m (0-based), d].  From the
\* 400-year era of the day to the day of the era, the year of the era, the
\* day of the year (from 1 March) and the month (from March).
CivilFromDays(n) ==
    LET Fields(era, yoe, doy, mp) ==
            [y |-> IF mp >= 10 THEN yoe + era * 400 + 1 ELSE yoe + era * 400,
             m |-> IF mp < 10 THEN mp + 2 ELSE mp - 10,
             d |-> doy - (153 * mp + 2) \div 5 + 1]
        OfDoy(era, yoe, doy) == Fields(era, yoe, doy, (5 * doy + 2) \div 153)
        OfYoe(era, doe, yoe) ==
            OfDoy(era, yoe, doe - (365 * yoe + yoe \div 4 - yoe \div 100))
        OfDoe(era, doe) ==
            OfYoe(era, doe,
                  (doe - doe \div 1460 + doe \div 36524 - doe \div 146096)
                      \div 365)
        OfEra(z, era) == OfDoe(era, z - era * 146097)
    IN  OfEra(n + 719468, (n + 719468) \div 146097)

getFullYear(date) == CivilFromDays(date.day).y
getMonth(date) == CivilFromDays(date.day).m
getDate(date) == CivilFromDays(date.day).d
\* 0 = Sunday ... 6 = Saturday; 1970-01-01 was a Thursday
getDay(date) == (date.day + 4) % 7

\* date.setDate(v): the day of the month replaced, normalised by the runtime
setDate(date, v) ==
    [date EXCEPT !.day = DaysFromCivil(getFullYear(date), getMonth(date), v)]

\* date.setHours(h, m, s, ms), for the two uses the source makes of it
setHours(date, msOfDay) == [date EXCEPT !.ms = msOfDay]

\* new Date(year, monthIndex, day): local midnight of the day; the runtime
\* takes a year from 0 to 99 as 1900 + year
NewDate(year, monthIndex, dayOfMonth) ==
    [day |-> DaysFromCivil(IF 0 <= year /\ year <= 99 THEN 1900 + year
                           ELSE year,
                           monthIndex, dayOfMonth),
     ms  |-> 0]

\* String(n) for n >= 0: the decimal digits, as code units ("0" is 48)
RECURSIVE ToStringNat(_)
ToStringNat(n) ==
    IF n < 10 THEN <<48 + n>> ELSE ToStringNat(n \div 10) \o <<48 + (n % 10)>>

\* s.padStart(2, '0')
padStart2(s) == IF Len(s) >= 2 THEN s ELSE <<48>> \o s

DASH == 45

\* Number(s) for a string of decimal digits
RECURSIVE ToNumber(_)
ToNumber(s) ==
    IF Len(s) = 0 THEN 0
    ELSE 10 * ToNumber(SubSeq(s, 1, Len(s) - 1)) + (s[Len(s)] - 48)

\* s.split('-')
RECURSIVE Split(_)
Split(s) ==
    IF \A i \in 1..Len(s) : s[i] # DASH THEN <<s>>
    ELSE LET k == CHOOSE i \in 1..Len(s) :
                      s[i] = DASH /\ \A j \in 1..(i - 1) : s[j] # DASH
         IN  <<SubSeq(s, 1, k - 1)>> \o Split(SubSeq(s, k + 1, Len(s)))

\* a < b on strings: code unit by code unit, a proper prefix first
RECURSIVE StrLess(_, _)
StrLess(a, b) ==
    IF Len(b) = 0 THEN FALSE
    ELSE IF Len(a) = 0 THEN TRUE
    ELSE IF a[1] # b[1] THEN a[1] < b[1]
    ELSE StrLess(Tail(a), Tail(b))

StrLeq(a, b) == a = b \/ StrLess(a, b)

\* arr.reduce((sum, x) => sum + x, 0) over a sequence of numbers
RECURSIVE SumSeq(_)
SumSeq(seq) == IF Len(seq) = 0 THEN 0 ELSE seq[1] + SumSeq(Tail(seq))

--------------------------------------------------------------------------
(* dateUtils.ts *)

formatDateToString(date) ==
    LET year  == getFullYear(date)
        month == padStart2(ToStringNat(getMonth(date) + 1))
        dayStr == padStart2(ToStringNat(getDate(date)))
    IN  ToStringNat(year) \o <<DASH>> \o month \o <<DASH>> \o dayStr

getTodayString == formatDateToString(today)

parseDate(dateString) ==
    LET strs  == Split(dateString)
        parts == [i \in 1..Len(strs) |-> ToNumber(strs[i])]
    IN  NewDate(parts[1], parts[2] - 1, parts[3])

\* getWeekStart without the case of Sunday (sensitivity of C15)
getWeekStartFromSunday(date) ==
    LET dayOfWeek == getDay(date)
        daysToSubtract == dayOfWeek - 1
    IN  setHours(setDate(date, getDate(date) - daysToSubtract), 0)

getWeekStart(date) ==
    LET dayOfWeek == getDay(date)
        daysToSubtract == IF dayOfWeek = 0 THEN 6 ELSE dayOfWeek - 1
    IN  setHours(setDate(date, getDate(date) - daysToSubtract), 0)

getWeekEnd(date) ==
    LET Sunday(weekStart) ==
            setHours(setDate(weekStart, getDate(weekStart) + 6), EndOfDayMs)
    IN  Sunday(getWeekStart(date))

\* now: what new Date() returns
getCurrentWeekRange(now) == [start |-> getWeekStart(now), end |-> getWeekEnd(now)]

MonthShort == <<"Jan", "Feb", "Mar", "Apr", "May", "Jun",
                "Jul", "Aug", "Sep", "Oct", "Nov", "Dec">>

\* toLocaleDateString('en-US', {month: 'short', day: 'numeric'})
formatDateForDisplay(date) == <<MonthShort[getMonth(date) + 1], getDate(date)>>

formatWeekRange(start, end) ==
    <<formatDateForDisplay(start), formatDateForDisplay(end)>>

RECURSIVE WeekDatesLoop(_, _, _)
WeekDatesLoop(dates, current, i) ==
    IF i < 7
    THEN WeekDatesLoop(Append(dates, formatDateToString(current)),
                       setDate(current, getDate(current) + 1), i + 1)
    ELSE dates

\* getWeekDates adding to the day of the month without the runtime's
\* normalisation: the day after the 31st is "the 32nd" (sensitivity of C14)
getWeekDatesSameMonth(weekStart) ==
    [i \in 1..7 |->
        ToStringNat(getFullYear(weekStart)) \o <<DASH>>
            \o padStart2(ToStringNat(getMonth(weekStart) + 1)) \o <<DASH>>
            \o padStart2(ToStringNat(getDate(weekStart) + i - 1))]

getWeekDates(weekStart) == WeekDatesLoop(<<>>, weekStart, 0)

WeekdayShort == <<"Sun", "Mon", "Tue", "Wed", "Thu", "Fri", "Sat">>

\* toLocaleDateString('en-US', {weekday: 'short'})
getShortDayName(date) == WeekdayShort[getDay(date) + 1]

--------------------------------------------------------------------------
(* JavaScript numbers: non-negative rationals [num, den] in lowest terms *)

RECURSIVE GCD(_, _)
GCD(a, b) == IF b = 0 THEN a ELSE GCD(b, a % b)

\* a / b for integers a >= 0, b > 0
Divide(a, b) == LET g == GCD(a, b) IN [num |-> a \div g, den |-> b \div g]

\* r * k for an integer k > 0
Times(r, k) == Divide(r.num * k, r.den)

Num(k) == [num |-> k, den |-> 1]

\* Math.min(r, k)
MathMin(r, k) == IF r.num <= k * r.den THEN r ELSE Num(k)

--------------------------------------------------------------------------
(* storage.ts: the store.  A localStorage item is                          *)
(*   [kind |-> "absent"]            getItem returns null                   *)
(*   [kind |-> "corrupt"]           JSON.parse throws                      *)
(*   [kind |-> "json", value |-> v] JSON.parse returns v                   *)

Absent == [kind |-> "absent", value |-> <<>>]
Corrupt == [kind |-> "corrupt", value |-> <<>>]
Json(v) == [kind |-> "json", value |-> v]
\* the JSON text of v, damaged: JSON.parse throws on it
Garbled(v) == [kind |-> "corrupt", value |-> v]

\* getFromStorage handing on what a damaged item held (sensitivity of C17)
getFromStorageLenient(stored, defaultValue) ==
    IF stored.kind = "absent" THEN defaultValue ELSE stored.value

getFromStorage(stored, defaultValue) ==
    IF stored.kind = "absent" THEN defaultValue
    ELSE IF stored.kind = "corrupt" THEN defaultValue
    ELSE stored.value

\* localStorage.setItem(key, JSON.stringify(data)) inside try/catch: the item
\* after the call
saveToStorage(stored, data) == IF storageFull THEN stored ELSE Json(data)

getSkills == getFromStorage(storeSkills, <<>>)

getLogs == getFromStorage(storeLogs, <<>>)

logExistsForDate(skillId, date) ==
    \E i \in 1..Len(getLogs) :
        getLogs[i].skillId = skillId /\ getLogs[i].date = date

getLogsForSkill(skillId) ==
    LET keep(log) == log.skillId = skillId IN SelectSeq(getLogs, keep)

\* getLogsInDateRange leaving the end date out (sensitivity of C12)
getLogsInDateRangeExclusive(logsItem, startDate, endDate) ==
    LET keep(log) == StrLeq(startDate, log.date) /\ StrLess(log.date, endDate)
    IN  SelectSeq(getFromStorage(logsItem, <<>>), keep)

\* logsItem: the logs item of localStorage at the time of the call
getLogsInDateRange(logsItem, startDate, endDate) ==
    LET keep(log) == StrLeq(startDate, log.date) /\ StrLeq(log.date, endDate)
    IN  SelectSeq(getFromStorage(logsItem, <<>>), keep)

--------------------------------------------------------------------------
(* reportUtils (storage.ts 127-287) *)

\* DayCount taking the skill's first log whatever its date
\* (sensitivity of C10)
DayCountAnyDate(skillLogs, date) ==
    IF Len(skillLogs) > 0 THEN skillLogs[1].count ELSE 0

\* DayCount telling only whether the day has a log (sensitivity of C21)
DayCountPresence(skillLogs, date) ==
    IF \E i \in 1..Len(skillLogs) : skillLogs[i].date = date THEN 1 ELSE 0

\* skillLogs.find(log => log.date === date), then dayLog?.count || 0
DayCount(skillLogs, date) ==
    IF \E i \in 1..Len(skillLogs) : skillLogs[i].date = date
    THEN LET k == CHOOSE i \in 1..Len(skillLogs) :
                      /\ skillLogs[i].date = date
                      /\ \A j \in 1..(i - 1) : skillLogs[j].date # date
         IN  skillLogs[k].count
    ELSE 0

\* calculateSkillProgress without Math.min(.., 100) (sensitivity of C7)
calculateSkillProgressUncapped(skill, weekLogs, weekDates) ==
    LET keep(log) == log.skillId = skill.id
        skillLogs == SelectSeq(weekLogs, keep)
        completedCount ==
            SumSeq([i \in 1..Len(skillLogs) |-> skillLogs[i].count])
        rawPercentage ==
            IF skill.weeklyGoal > 0
            THEN Times(Divide(completedCount, skill.weeklyGoal), 100)
            ELSE Num(0)
        dailyBreakdown ==
            [i \in 1..Len(weekDates) |->
                [date    |-> weekDates[i],
                 dayName |-> getShortDayName(parseDate(weekDates[i])),
                 count   |-> DayCount(skillLogs, weekDates[i])]]
    IN  [skillId            |-> skill.id,
         skillName          |-> skill.name,
         weeklyGoal         |-> skill.weeklyGoal,
         completedCount     |-> completedCount,
         progressPercentage |-> rawPercentage,
         isComplete         |-> completedCount >= skill.weeklyGoal,
         dailyBreakdown     |-> dailyBreakdown]

\* calculateSkillProgress taking a skill without a goal as done: 100 where
\* the code has 0 (sensitivity of C8)
calculateSkillProgressNoGoalDone(skill, weekLogs, weekDates) ==
    LET keep(log) == log.skillId = skill.id
        skillLogs == SelectSeq(weekLogs, keep)
        completedCount ==
            SumSeq([i \in 1..Len(skillLogs) |-> skillLogs[i].count])
        rawPercentage ==
            IF skill.weeklyGoal > 0
            THEN Times(Divide(completedCount, skill.weeklyGoal), 100)
            ELSE Num(100)
        progressPercentage == MathMin(rawPercentage, 100)
        dailyBreakdown ==
            [i \in 1..Len(weekDates) |->
                [date    |-> weekDates[i],
                 dayName |-> getShortDayName(parseDate(weekDates[i])),
                 count   |-> DayCount(skillLogs, weekDates[i])]]
    IN  [skillId            |-> skill.id,
         skillName          |-> skill.name,
         weeklyGoal         |-> skill.weeklyGoal,
         completedCount     |-> completedCount,
         progressPercentage |-> progressPercentage,
         isComplete         |-> completedCount >= skill.weeklyGoal,
         dailyBreakdown     |-> dailyBreakdown]

calculateSkillProgress(skill, weekLogs, weekDates) ==
    LET keep(log) == log.skillId = skill.id
        skillLogs == SelectSeq(weekLogs, keep)
        completedCount ==
            SumSeq([i \in 1..Len(skillLogs) |-> skillLogs[i].count])
        rawPercentage ==
            IF skill.weeklyGoal > 0
            THEN Times(Divide(completedCount, skill.weeklyGoal), 100)
            ELSE Num(0)
        progressPercentage == MathMin(rawPercentage, 100)
        dailyBreakdown ==
            [i \in 1..Len(weekDates) |->
                [date    |-> weekDates[i],
                 dayName |-> getShortDayName(parseDate(weekDates[i])),
                 count   |-> DayCount(skillLogs, weekDates[i])]]
    IN  [skillId            |-> skill.id,
         skillName          |-> skill.name,
         weeklyGoal         |-> skill.weeklyGoal,
         completedCount     |-> completedCount,
         progressPercentage |-> progressPercentage,
         isComplete         |-> completedCount >= skill.weeklyGoal,
         dailyBreakdown     |-> dailyBreakdown]

\* generateWeeklyReport counting each skill's executions up to its goal only
\* (sensitivity of C9)
generateWeeklyReportCapped(skillsItem, logsItem, now) ==
    LET start    == getCurrentWeekRange(now).start
        end      == getCurrentWeekRange(now).end
        startStr == formatDateToString(start)
        endStr   == formatDateToString(end)
        allSkills == getFromStorage(skillsItem, <<>>)
        weekLogs == getLogsInDateRange(logsItem, startStr, endStr)
        weekDates == getWeekDates(start)
        skillsProgress ==
            [i \in 1..Len(allSkills) |->
                calculateSkillProgress(allSkills[i], weekLogs, weekDates)]
        totalGoal ==
            SumSeq([i \in 1..Len(allSkills) |-> allSkills[i].weeklyGoal])
        totalCompleted ==
            SumSeq([i \in 1..Len(skillsProgress) |->
                        IF skillsProgress[i].isComplete
                        THEN skillsProgress[i].weeklyGoal
                        ELSE skillsProgress[i].completedCount])
        overallProgress ==
            IF totalGoal > 0
            THEN MathMin(Times(Divide(totalCompleted, totalGoal), 100), 100)
            ELSE Num(0)
    IN  [weekRange       |-> formatWeekRange(start, end),
         startDate       |-> startStr,
         endDate         |-> endStr,
         skills          |-> skillsProgress,
         overallProgress |-> overallProgress,
         totalGoal       |-> totalGoal,
         totalCompleted  |-> totalCompleted]

\* generateWeeklyReport totalling the week's logs whatever their skill
\* (sensitivity of C13)
generateWeeklyReportAllLogs(skillsItem, logsItem, now) ==
    LET start    == getCurrentWeekRange(now).start
        end      == getCurrentWeekRange(now).end
        startStr == formatDateToString(start)
        endStr   == formatDateToString(end)
        allSkills == getFromStorage(skillsItem, <<>>)
        weekLogs == getLogsInDateRange(logsItem, startStr, endStr)
        weekDates == getWeekDates(start)
        skillsProgress ==
            [i \in 1..Len(allSkills) |->
                calculateSkillProgress(allSkills[i], weekLogs, weekDates)]
        totalGoal ==
            SumSeq([i \in 1..Len(allSkills) |-> allSkills[i].weeklyGoal])
        totalCompleted ==
            SumSeq([i \in 1..Len(weekLogs) |-> weekLogs[i].count])
        overallProgress ==
            IF totalGoal > 0
            THEN MathMin(Times(Divide(totalCompleted, totalGoal), 100), 100)
            ELSE Num(0)
    IN  [weekRange       |-> formatWeekRange(start, end),
         startDate       |-> startStr,
         endDate         |-> endStr,
         skills          |-> skillsProgress,
         overallProgress |-> overallProgress,
         totalGoal       |-> totalGoal,
         totalCompleted  |-> totalCompleted]

\* skillsItem, logsItem: localStorage at the time of the call; now: the clock
generateWeeklyReport(skillsItem, logsItem, now) ==
    LET start    == getCurrentWeekRange(now).start
        end      == getCurrentWeekRange(now).end
        startStr == formatDateToString(start)
        endStr   == formatDateToString(end)
        allSkills == getFromStorage(skillsItem, <<>>)
        weekLogs == getLogsInDateRange(logsItem, startStr, endStr)
        weekDates == getWeekDates(start)
        skillsProgress ==
            [i \in 1..Len(allSkills) |->
                calculateSkillProgress(allSkills[i], weekLogs, weekDates)]
        totalGoal ==
            SumSeq([i \in 1..Len(allSkills) |-> allSkills[i].weeklyGoal])
        totalCompleted ==
            SumSeq([i \in 1..Len(skillsProgress) |->
                        skillsProgress[i].completedCount])
        overallProgress ==
            IF totalGoal > 0
            THEN MathMin(Times(Divide(totalCompleted, totalGoal), 100), 100)
            ELSE Num(0)
    IN  [weekRange       |-> formatWeekRange(start, end),
         startDate       |-> startStr,
         endDate         |-> endStr,
         skills          |-> skillsProgress,
         overallProgress |-> overallProgress,
         totalGoal       |-> totalGoal,
         totalCompleted  |-> totalCompleted]

\* a >= b on rationals
Geq(a, b) == a.num * b.den >= b.num * a.den

\* getProgressStatus with a strict comparison (sensitivity of C11)
getProgressStatusStrict(progress, now) ==
    IF progress.isComplete THEN "complete"
    ELSE LET dayOfWeek == getDay(now)
             daysElapsed == IF dayOfWeek = 0 THEN 7 ELSE dayOfWeek
             expectedProgress ==
                 Times(Divide(daysElapsed, 7), progress.weeklyGoal)
         IN  IF ~Geq(expectedProgress, Num(progress.completedCount))
             THEN "on-track" ELSE "behind"

\* getProgressStatus taking getDay() as the days elapsed, Sunday being 0
\* (sensitivity of C22)
getProgressStatusSundayZero(progress, now) ==
    IF progress.isComplete THEN "complete"
    ELSE LET daysElapsed == getDay(now)
             expectedProgress ==
                 Times(Divide(daysElapsed, 7), progress.weeklyGoal)
         IN  IF Geq(Num(progress.completedCount), expectedProgress)
             THEN "on-track" ELSE "behind"

\* now: what new Date() returns.  The doubles (daysElapsed / 7) * weeklyGoal
\* compare with an integer count as the exact products do (every goal up to
\* 2000, every day), so the comparison is made on the rationals.
getProgressStatus(progress, now) ==
    IF progress.isComplete THEN "complete"
    ELSE LET dayOfWeek == getDay(now)
             daysElapsed == IF dayOfWeek = 0 THEN 7 ELSE dayOfWeek
             expectedProgress ==
                 Times(Divide(daysElapsed, 7), progress.weeklyGoal)
         IN  IF Geq(Num(progress.completedCount), expectedProgress)
             THEN "on-track" ELSE "behind"

--------------------------------------------------------------------------
(* Inputs *)

\* generateId(): `${Date.now()}-${random}`, a string no earlier call returned.
\* The calls are numbered per collection (made: how many the collection has had)
\* since a skill's id and a log's id are never compared with each other.
generateId(collection, made) == <<collection, made + 1>>

\* Date.now() at the creation of a skill: the logical time, non-decreasing
DateNow == skillsMade + 1

Noon == [day |-> 0, ms |-> 43200000]

\* the clock of a session: Sunday 2023-12-31, a week's (and a year's) last day
Today == [Noon EXCEPT !.day = DaysFromCivil(2023, 11, 31)]

\* what the date picker can hold: today (its default) and the next day,
\* Monday 2024-01-01, outside the current week
DateInputs ==
    {formatDateToString(Today),
     formatDateToString([Noon EXCEPT !.day = DaysFromCivil(2024, 0, 1)])}

\* what the skill name field can hold: " " and "r"
NameInputs == {<<32>>, <<114>>}

\* what the weekly goal field can hold: "", "0", "1", "51"
GoalInputs == {<<>>, <<48>>, <<49>>, <<53, 49>>}

\* what the count field can hold: "", "0", "1"
CountInputs == {<<>>, <<48>>, <<49>>}

IsDigit(c) == 48 <= c /\ c <= 57

\* parseInt(s, 10) for s without sign or leading blanks: the number its
\* leading digits spell, NULL (NaN) when it has none
parseInt(s) ==
    LET n == IF \E i \in 1..Len(s) : ~IsDigit(s[i])
             THEN (CHOOSE i \in 1..Len(s) :
                       ~IsDigit(s[i]) /\ \A j \in 1..(i - 1) : IsDigit(s[j])) - 1
             ELSE Len(s)
    IN  IF n = 0 THEN NULL ELSE <<ToNumber(SubSeq(s, 1, n))>>

isNaN(x) == x = NULL

\* s.trim(), blanks being U+0020
RECURSIVE trim(_)
trim(s) ==
    IF Len(s) = 0 THEN s
    ELSE IF s[1] = 32 THEN trim(Tail(s))
    ELSE IF s[Len(s)] = 32 THEN trim(SubSeq(s, 1, Len(s) - 1))
    ELSE s

--------------------------------------------------------------------------
(* useSkills (unnamed/part_000) *)

addSkill(prev, skill) == Append(prev, skill)

updateSkill(prev, updatedSkill) ==
    [i \in 1..Len(prev) |->
        IF prev[i].id = updatedSkill.id THEN updatedSkill ELSE prev[i]]

\* the skills state after deleteSkill(skillId)
deleteSkillSkills(prev, skillId) ==
    LET keep(skill) == skill.id # skillId IN SelectSeq(prev, keep)

\* a cascade that keeps the skill's first log (sensitivity of C1)
deleteSkillLogsButFirst(skillId) ==
    LET keep(log) == log.skillId # skillId
        rest == SelectSeq(getLogs, keep)
    IN  IF \E i \in 1..Len(getLogs) : getLogs[i].skillId = skillId
        THEN <<getLogs[CHOOSE i \in 1..Len(getLogs) :
                          /\ getLogs[i].skillId = skillId
                          /\ \A j \in 1..(i - 1) : getLogs[j].skillId # skillId]>>
             \o rest
        ELSE rest

\* the logs that deleteSkill(skillId) hands to saveLogs
deleteSkillLogs(skillId) ==
    LET keep(log) == log.skillId # skillId IN SelectSeq(getLogs, keep)

\* saveSkill closes over the skills of the latest render
saveSkill(skill) ==
    IF \E i \in 1..Len(skills) : skills[i].id = skill.id
    THEN updateSkill(skills, skill)
    ELSE addSkill(skills, skill)

--------------------------------------------------------------------------
(* useLogs.ts *)

addOrUpdateLog(prev, log) ==
    IF \E i \in 1..Len(prev) : prev[i].id = log.id
    THEN LET existingIndex == CHOOSE i \in 1..Len(prev) :
                 prev[i].id = log.id /\ \A j \in 1..(i - 1) : prev[j].id # log.id
         IN  [prev EXCEPT ![existingIndex] = log]
    ELSE Append(prev, log)

--------------------------------------------------------------------------
(* The page after construction: first render of Index on a fresh browser   *)
(* (both keys absent), the effects of the first render still to run.       *)

Init ==
    /\ today = Today
    /\ storageFull = FALSE
    /\ storeSkills = Absent
    /\ storeLogs = Absent
    /\ skills = getFromStorage(Absent, <<>>)
    /\ logs = getFromStorage(Absent, <<>>)
    /\ skillsDirty = TRUE
    /\ logsDirty = TRUE
    /\ editingSkill = NULL
    /\ deleteConfirm = NULL
    /\ activeTab = "report"
    /\ selectedSkillId = NULL
    /\ feedback = NULL
    /\ timers = 0
    /\ report = <<generateWeeklyReport(Absent, Absent, Today)>>
    /\ skillsMade = 0
    /\ logsMade = 0

--------------------------------------------------------------------------
(* The hooks' effects.  useEffect(() => saveSkills(skills), [skills]) and  *)
(* useEffect(() => saveLogs(logs), [logs]) run after the render that       *)
(* changed the state, with that render's values.  React runs a render's    *)
(* pending effects together, when the scheduler gets to them and at the    *)
(* latest before the next render starts: a handler that runs first still   *)
(* reads the store as the render before left it.                           *)

\* useSkills' effect, if pending
FlushSkills ==
    IF skillsDirty THEN saveToStorage(storeSkills, skills) ELSE storeSkills

\* useLogs' effect, if pending, on the item as the handler left it
FlushLogs(item) ==
    IF logsDirty THEN saveToStorage(item, logs) ELSE item

\* A handler has returned with state updates queued: the pending effects
\* run, then the render; setSkills / setLogs say which states it replaced.
Render(logsItem, setSkills, setLogs) ==
    /\ storeSkills' = FlushSkills
    /\ storeLogs' = FlushLogs(logsItem)
    /\ skillsDirty' = setSkills
    /\ logsDirty' = setLogs

\* The scheduler runs the pending effects
FlushEffects ==
    /\ skillsDirty \/ logsDirty
    /\ Render(storeLogs, FALSE, FALSE)
    /\ UNCHANGED <<skills, logs, editingSkill, deleteConfirm, activeTab,
                   selectedSkillId, feedback, timers, report, today, skillsMade, logsMade,
                   storageFull>>

--------------------------------------------------------------------------
(* SkillList buttons and Index handlers.  The delete confirmation is a     *)
(* modal dialog: while it is open the page behind it takes no input.       *)

\* SkillList: onEdit(skill) = setEditingSkill(skill)
StartEdit(i) ==
    /\ deleteConfirm = NULL
    /\ i \in 1..Len(skills)
    /\ editingSkill' = <<skills[i]>>
    /\ Render(storeLogs, FALSE, FALSE)
    /\ UNCHANGED <<skills, logs, deleteConfirm, activeTab, selectedSkillId,
                   feedback, timers, report, today, skillsMade, logsMade, storageFull>>

handleCancelEdit ==
    /\ deleteConfirm = NULL
    /\ editingSkill # NULL
    /\ editingSkill' = NULL
    /\ Render(storeLogs, FALSE, FALSE)
    /\ UNCHANGED <<skills, logs, deleteConfirm, activeTab, selectedSkillId,
                   feedback, timers, report, today, skillsMade, logsMade, storageFull>>

\* SkillList: onDelete(skill.id) = setDeleteConfirm(skill.id)
RequestDelete(i) ==
    /\ deleteConfirm = NULL
    /\ i \in 1..Len(skills)
    /\ deleteConfirm' = <<skills[i].id>>
    /\ Render(storeLogs, FALSE, FALSE)
    /\ UNCHANGED <<skills, logs, editingSkill, activeTab, selectedSkillId,
                   feedback, timers, report, today, skillsMade, logsMade, storageFull>>

\* AlertDialog: onOpenChange(false) = setDeleteConfirm(null)
CancelDelete ==
    /\ deleteConfirm # NULL
    /\ deleteConfirm' = NULL
    /\ Render(storeLogs, FALSE, FALSE)
    /\ UNCHANGED <<skills, logs, editingSkill, activeTab, selectedSkillId,
                   feedback, timers, report, today, skillsMade, logsMade, storageFull>>

\* useSkills.deleteSkill(skillId): setSkills(filter), then the cascade
\* getLogs / filter / saveLogs on the store
deleteSkill(skillId) ==
    /\ skills' = deleteSkillSkills(skills, skillId)
    /\ Render(saveToStorage(storeLogs, deleteSkillLogs(skillId)), TRUE, FALSE)

handleDeleteConfirm ==
    /\ deleteConfirm # NULL
    /\ deleteSkill(deleteConfirm[1])
    /\ deleteConfirm' = NULL
    /\ UNCHANGED <<logs, editingSkill, activeTab, selectedSkillId, feedback,
                   timers, report, today, skillsMade, logsMade, storageFull>>

\* SkillForm.handleSubmit on the fields' contents, then Index.handleSkillSubmit
handleSubmit(name, weeklyGoal) ==
    /\ deleteConfirm = NULL
    /\ LET trimmedName == trim(name)
           goalNumber  == parseInt(weeklyGoal)
       IN  IF trimmedName = <<>>
           THEN UNCHANGED vars
           ELSE IF isNaN(goalNumber) \/ goalNumber[1] < 1
           THEN UNCHANGED vars
           ELSE IF goalNumber[1] > 50
           THEN UNCHANGED vars
           ELSE /\ editingSkill = NULL => skillsMade < MaxSkillsMade
                /\ LET skill ==
                           [id         |-> IF editingSkill # NULL
                                           THEN editingSkill[1].id
                                           ELSE generateId("skill", skillsMade),
                            name       |-> trimmedName,
                            weeklyGoal |-> goalNumber[1],
                            createdAt  |-> IF editingSkill # NULL
                                           THEN editingSkill[1].createdAt
                                           ELSE DateNow]
                   IN  /\ skills' = saveSkill(skill)
                       /\ editingSkill' = NULL
                       /\ skillsMade' = IF editingSkill = NULL
                                        THEN skillsMade + 1 ELSE skillsMade
                /\ Render(storeLogs, TRUE, FALSE)
                /\ UNCHANGED <<logs, deleteConfirm, activeTab, selectedSkillId,
                               feedback, timers, report, today, logsMade,
                               storageFull>>

--------------------------------------------------------------------------
(* ExecutionLogger.tsx: rendered in the "log" tab; the form and the quick  *)
(* log buttons exist only while there are skills.                          *)

Error(message) == <<[type |-> "error", message |-> message]>>
Success(message) == <<[type |-> "success", message |-> message]>>

LoggerShown == activeTab = "log" /\ deleteConfirm = NULL /\ Len(skills) > 0

\* the select's onChange: one of the rendered options
SelectSkill(v) ==
    /\ LoggerShown
    /\ v \in {NULL} \cup {<<skills[i].id>> : i \in 1..Len(skills)}
    /\ v # selectedSkillId
    /\ selectedSkillId' = v
    /\ Render(storeLogs, FALSE, FALSE)
    /\ UNCHANGED <<skills, logs, editingSkill, deleteConfirm, activeTab,
                   feedback, timers, report, today, skillsMade, logsMade, storageFull>>

\* onLogExecution(log) = useLogs.addOrUpdateLog(log), setFeedback(success),
\* setTimeout(clear, 3000)
LogAccepted(log, message) ==
    /\ timers < MaxTimers
    /\ logs' = addOrUpdateLog(logs, log)
    /\ Render(storeLogs, FALSE, TRUE)
    /\ feedback' = Success(message)
    /\ timers' = timers + 1

LogRejected(message) ==
    /\ feedback' = Error(message)
    /\ Render(storeLogs, FALSE, FALSE)
    /\ UNCHANGED <<logs, timers, logsMade>>

handleLogExecution(selectedDate, executionCount) ==
    /\ LoggerShown
    /\ LET count == parseInt(executionCount)
       IN  IF selectedSkillId = NULL
           THEN LogRejected("Please select a skill")
           ELSE IF isNaN(count) \/ count[1] < 1
           THEN LogRejected("Count must be at least 1")
           ELSE IF logExistsForDate(selectedSkillId[1], selectedDate)
           THEN LogRejected(
                    "Already logged this skill for this date. Edit or delete the existing log first.")
           ELSE /\ logsMade < MaxLogsMade
                /\ LogAccepted([id      |-> generateId("log", logsMade),
                                skillId |-> selectedSkillId[1],
                                date    |-> selectedDate,
                                count   |-> count[1]], "Logged")
                /\ logsMade' = logsMade + 1
    /\ UNCHANGED <<skills, editingSkill, deleteConfirm, activeTab,
                   selectedSkillId, report, today, skillsMade, storageFull>>

handleQuickLog(skill) ==
    /\ LoggerShown
    /\ LET day == getTodayString
       IN  IF logExistsForDate(skill.id, day)
           THEN LET stored == getLogs
                    k == CHOOSE i \in 1..Len(stored) :
                             /\ stored[i].skillId = skill.id
                             /\ stored[i].date = day
                             /\ \A j \in 1..(i - 1) :
                                    ~(stored[j].skillId = skill.id
                                      /\ stored[j].date = day)
                    existingLog == stored[k]
                IN  /\ existingLog.count < MaxCount
                    /\ LogAccepted([existingLog EXCEPT
                                       !.count = existingLog.count + 1],
                                   "Updated")
                    /\ UNCHANGED logsMade
           ELSE /\ logsMade < MaxLogsMade
                /\ LogAccepted([id      |-> generateId("log", logsMade),
                                skillId |-> skill.id,
                                date    |-> day,
                                count   |-> 1], "Logged")
                /\ logsMade' = logsMade + 1
    /\ UNCHANGED <<skills, editingSkill, deleteConfirm, activeTab,
                   selectedSkillId, report, today, skillsMade, storageFull>>

QuickLog(i) == i \in 1..Len(skills) /\ handleQuickLog(skills[i])

\* setTimeout(() => setFeedback(null), 3000)
TimerFires ==
    /\ timers > 0
    /\ timers' = timers - 1
    /\ feedback' = NULL
    /\ Render(storeLogs, FALSE, FALSE)
    /\ UNCHANGED <<skills, logs, editingSkill, deleteConfirm, activeTab,
                   selectedSkillId, report, today, skillsMade, logsMade, storageFull>>

--------------------------------------------------------------------------
(* Tabs: only the active tab's content is mounted.  Entering "report"      *)
(* mounts WeeklyReport, whose useMemo(.., []) computes the report once,    *)
(* during the render; entering "log" mounts a fresh ExecutionLogger.       *)

SwitchTab(tab) ==
    /\ deleteConfirm = NULL
    /\ tab # activeTab
    /\ activeTab' = tab
    /\ Render(storeLogs, FALSE, FALSE)
    /\ UNCHANGED <<skills, logs, editingSkill, deleteConfirm, today, skillsMade, logsMade,
                   storageFull>>
    /\ report' = IF tab = "report"
                 THEN <<generateWeeklyReport(FlushSkills, FlushLogs(storeLogs),
                                             today)>>
                 ELSE NULL
    /\ selectedSkillId' = NULL
    /\ feedback' = NULL
    /\ timers' = 0

Next ==
    \/ \E i \in 1..MaxSkillsMade : StartEdit(i)
    \/ handleCancelEdit
    \/ \E i \in 1..MaxSkillsMade : RequestDelete(i)
    \/ CancelDelete
    \/ handleDeleteConfirm
    \/ \E name \in NameInputs, weeklyGoal \in GoalInputs :
           handleSubmit(name, weeklyGoal)
    \/ \E v \in {NULL} \cup {<<skills[i].id>> : i \in 1..Len(skills)} :
           SelectSkill(v)
    \/ \E selectedDate \in DateInputs, executionCount \in CountInputs :
           handleLogExecution(selectedDate, executionCount)
    \/ \E i \in 1..MaxSkillsMade : QuickLog(i)
    \/ TimerFires
    \/ \E tab \in {"report", "log"} : SwitchTab(tab)
    \/ FlushEffects

Spec == Init /\ [][Next]_vars

--------------------------------------------------------------------------
(* A page load on a store that earlier sessions (or other code writing     *)
(* the same keys) left behind: the report engine and the cascade must      *)
(* cope with whatever the two items decode to.                             *)

\* the clock at page load: Sunday 2023-12-31, a week's and a year's last
\* day, and Monday 2024-01-01, the next week's first
Todays == {Today, [Noon EXCEPT !.day = DaysFromCivil(2024, 0, 1)]}

\* weekly goals found in the store: 0 is what no form submits
StoredGoals == {0, 4, 5, 6}

\* dates found in the store: Monday 2023-12-25, Sunday 2023-12-31,
\* Monday 2024-01-01
StoredDates ==
    {formatDateToString([Noon EXCEPT !.day = DaysFromCivil(2023, 11, 25)])}
    \cup DateInputs

StoredCounts == {3, 4}

\* the skills that logs in the store refer to; the second one is dangling
\* when the store holds fewer than two skills
StoredSkillIds == {generateId("skill", 0), generateId("skill", 1)}

StoredSkillLists ==
    UNION {{[i \in 1..n |->
                [id |-> generateId("skill", i - 1), name |-> <<114>>,
                 weeklyGoal |-> goals[i], createdAt |-> i]] :
            goals \in [1..n -> StoredGoals]} : n \in 0..MaxStoredSkills}

StoredLogLists ==
    UNION {{[i \in 1..n |->
                [id |-> generateId("log", i - 1), skillId |-> e[i][1],
                 date |-> e[i][2], count |-> e[i][3]]] :
            e \in [1..n -> StoredSkillIds \X StoredDates \X StoredCounts]} :
           n \in 0..MaxStoredLogs}

InitLoad ==
    /\ today \in Todays
    /\ storageFull = FALSE
    /\ storeSkills \in {Json(v) : v \in StoredSkillLists}
    /\ storeLogs \in {Json(v) : v \in StoredLogLists}
    /\ skills = getSkills
    /\ logs = getLogs
    /\ skillsDirty = TRUE
    /\ logsDirty = TRUE
    /\ editingSkill = NULL
    /\ deleteConfirm = NULL
    /\ activeTab = "report"
    /\ selectedSkillId = NULL
    /\ feedback = NULL
    /\ timers = 0
    /\ report = <<generateWeeklyReport(storeSkills, storeLogs, today)>>
    /\ skillsMade = Len(skills)
    /\ logsMade = Len(logs)

NextLoad ==
    \/ \E i \in 1..MaxStoredSkills : RequestDelete(i)
    \/ CancelDelete
    \/ handleDeleteConfirm
    \/ \E tab \in {"report", "log"} : SwitchTab(tab)
    \/ FlushEffects

SpecLoad == InitLoad /\ [][NextLoad]_vars

--------------------------------------------------------------------------
(* A page load on any day of a week: the report's week and the status of   *)
(* each skill depend on the clock.  The store holds at most one skill and  *)
(* one log, or an item that is missing or does not decode.                 *)

\* n consecutive days from the given calendar day (monthIndex is 0-based)
DaysFrom(year, monthIndex, dayOfMonth, n) ==
    {DaysFromCivil(year, monthIndex, dayOfMonth) + k : k \in 0..(n - 1)}

\* the days of a page load: Monday 2024-12-23 to Sunday 2025-01-05 (the
\* second week runs over the year's end), Monday 2024-02-26 to Sunday
\* 2024-03-03 (over 29 February) and Monday 2023-02-27 to Sunday 2023-03-05
LoadDays ==
    DaysFrom(2024, 11, 23, 14) \cup DaysFrom(2024, 1, 26, 7)
        \cup DaysFrom(2023, 1, 27, 7)

\* the clock at page load: midnight, noon or the day's last millisecond
Clocks == {[day |-> n, ms |-> t] : n \in LoadDays, t \in {0, Noon.ms, EndOfDayMs}}

\* weekly goals found in the store
DayGoals == {0, 7}

\* counts found in the store's log
DayCounts == {2, 3, 7}

\* dates the date picker accepts that lie far from the clock's:
\* "0050-01-01" and "0999-12-31"
EarlyDates ==
    {<<48, 48, 53, 48, DASH, 48, 49, DASH, 48, 49>>,
     <<48, 57, 57, 57, DASH, 49, 50, DASH, 51, 49>>}

\* the logs items found: missing, undecodable (empty, or the damaged text
\* of a log), empty, a log of the skill dated the day of the load, or a log
\* with an early date
DayLogItems(now) ==
    {Absent, Corrupt, Json(<<>>),
     Garbled(<<[id |-> generateId("log", 0),
                skillId |-> generateId("skill", 0),
                date |-> formatDateToString(now), count |-> 3]>>)}
        \cup {Json(<<[id |-> generateId("log", 0),
                      skillId |-> generateId("skill", 0),
                      date |-> formatDateToString(now), count |-> c]>>) :
              c \in DayCounts}
        \cup {Json(<<[id |-> generateId("log", 0),
                      skillId |-> generateId("skill", 0),
                      date |-> d, count |-> 2]>>) : d \in EarlyDates}

DaySkillItems ==
    {Absent, Corrupt,
     Garbled(<<[id |-> generateId("skill", 0), name |-> <<114>>,
                weeklyGoal |-> 7, createdAt |-> 1]>>)}
        \cup {Json(<<[id |-> generateId("skill", 0), name |-> <<114>>,
                      weeklyGoal |-> g, createdAt |-> 1]>>) : g \in DayGoals}

InitDays ==
    /\ today \in Clocks
    /\ storageFull = FALSE
    /\ storeSkills \in DaySkillItems
    /\ storeLogs \in DayLogItems(today)
    /\ skills = getSkills
    /\ logs = getLogs
    /\ skillsDirty = TRUE
    /\ logsDirty = TRUE
    /\ editingSkill = NULL
    /\ deleteConfirm = NULL
    /\ activeTab = "report"
    /\ selectedSkillId = NULL
    /\ feedback = NULL
    /\ timers = 0
    /\ report = <<generateWeeklyReport(storeSkills, storeLogs, today)>>
    /\ skillsMade = Len(skills)
    /\ logsMade = Len(logs)

SpecDays == InitDays /\ [][NextLoad]_vars

--------------------------------------------------------------------------
(* A session in a browser whose localStorage takes no write (the quota is  *)
(* used up, or storage is disabled): setItem throws on every call.         *)

InitQuota ==
    /\ today = Today
    /\ storageFull = TRUE
    /\ storeSkills = Absent
    /\ storeLogs = Absent
    /\ skills = getFromStorage(Absent, <<>>)
    /\ logs = getFromStorage(Absent, <<>>)
    /\ skillsDirty = TRUE
    /\ logsDirty = TRUE
    /\ editingSkill = NULL
    /\ deleteConfirm = NULL
    /\ activeTab = "report"
    /\ selectedSkillId = NULL
    /\ feedback = NULL
    /\ timers = 0
    /\ report = <<generateWeeklyReport(Absent, Absent, Today)>>
    /\ skillsMade = 0
    /\ logsMade = 0

SpecQuota == InitQuota /\ [][Next]_vars

--------------------------------------------------------------------------
(* Properties *)

\* the places of s that hold a log of the pair (skillId, date)
PairLogs(s, skillId, date) ==
    {i \in 1..Len(s) : s[i].skillId = skillId /\ s[i].date = date}

\* no effect of an earlier render is still to run: the store holds what the
\* hooks last asked it to hold
Persisted == ~skillsDirty /\ ~logsDirty

\* C1: deleteSkill(id) leaves the persisted logs equal to their previous
\* contents with exactly the logs of skill id removed: none of that skill
\* is left, and every other log is kept, unchanged and in the same order.
C1_DeleteRemovesExactlyTheSkillsLogs ==
    [][handleDeleteConfirm =>
        LET id  == deleteConfirm[1]
            old == getFromStorage(storeLogs, <<>>)
            new == getFromStorage(storeLogs', <<>>)
            gone(i) == Cardinality({j \in 1..i : old[j].skillId = id})
        IN  /\ \A i \in 1..Len(new) : new[i].skillId # id
            /\ Len(new) = Len(old) - gone(Len(old))
            /\ \A i \in 1..Len(old) :
                   old[i].skillId # id => new[i - gone(i)] = old[i]]_vars

\* a skill has been deleted, the cascade took a log of it out of the store
\* (the page still holds it) and left another skill's log there
C1_Witness ==
    /\ Len(skills) < skillsMade
    /\ \E i \in 1..Len(logs) :
           /\ \A k \in 1..Len(skills) : skills[k].id # logs[i].skillId
           /\ \A j \in 1..Len(getLogs) : getLogs[j].id # logs[i].id
    /\ \E j \in 1..Len(getLogs) :
           \E k \in 1..Len(skills) : skills[k].id = getLogs[j].skillId

\* C2: whatever quick-log and detailed-log actions have run, the persisted
\* logs hold at most one log per (skillId, date) pair.
C2_OneLogPerSkillAndDate ==
    \A i \in 1..Len(getLogs) :
        PairLogs(getLogs, getLogs[i].skillId, getLogs[i].date) = {i}

\* C3: a quick log on a skill that has a log for today, with count n, leaves
\* exactly one log for the pair, with the same id and count n + 1, and adds
\* no entry; when the skill has none for today it appends one log with
\* count 1.
C3_QuickLogIncrementsOrAppends ==
    [][\A i \in 1..Len(skills) :
          QuickLog(i) =>
            LET was == PairLogs(logs, skills[i].id, getTodayString)
                is  == PairLogs(logs', skills[i].id, getTodayString)
            IN  IF was = {}
                THEN /\ Len(logs') = Len(logs) + 1
                     /\ SubSeq(logs', 1, Len(logs)) = logs
                     /\ is = {Len(logs')}
                     /\ logs'[Len(logs')].count = 1
                ELSE /\ Len(logs') = Len(logs)
                     /\ \E k \in 1..Len(logs) :
                            /\ is = {k}
                            /\ was = {k}
                            /\ logs'[k].id = logs[k].id
                            /\ logs'[k].count = logs[k].count + 1]_vars

\* what the logs effect pending before a handler, if any, writes; a handler
\* that writes no log leaves the store's logs at that
LogsAsAlreadyAsked == FlushLogs(storeLogs)

\* C4: a detailed-log submission is rejected with an error message and
\* changes no log, in the page or in the store, when its (skill, date) pair
\* already has a log, when no skill is selected, and when the count is not
\* a number or is below 1.
C4_DetailedLogRejects ==
    [][\A selectedDate \in DateInputs, executionCount \in CountInputs :
          (/\ handleLogExecution(selectedDate, executionCount)
           /\ \/ selectedSkillId = NULL
              \/ isNaN(parseInt(executionCount))
              \/ parseInt(executionCount)[1] < 1
              \/ PairLogs(logs, selectedSkillId[1], selectedDate) # {}
              \/ PairLogs(getLogs, selectedSkillId[1], selectedDate) # {})
          => /\ logs' = logs
             /\ storeLogs' = LogsAsAlreadyAsked
             /\ ~logsDirty'
             /\ feedback' # NULL
             /\ feedback'[1].type = "error"]_vars

\* C5: once the writes of the actions so far have been persisted, every
\* persisted log is of a skill that is in the persisted skills.
C5_NoDanglingLog ==
    Persisted =>
        \A i \in 1..Len(getLogs) :
            \E k \in 1..Len(getSkills) : getSkills[k].id = getLogs[i].skillId

\* C6: the report on display is what generateWeeklyReport makes of the
\* store's current contents, once the writes of the actions so far have been
\* persisted.
C6_ReportNeverStale ==
    (activeTab = "report" /\ Persisted) =>
        report = <<generateWeeklyReport(storeSkills, storeLogs, today)>>

\* what generateWeeklyReport makes of the store as it is
ReportNow == generateWeeklyReport(storeSkills, storeLogs, today)

\* the week-filtered logs that calculateSkillProgress is given
WeekLogsNow ==
    LET r == ReportNow
    IN  getLogsInDateRange(storeLogs, r.startDate, r.endDate)

\* the executions that the logs s record for skill id
Executions(s, id) ==
    SumSeq([k \in 1..Len(s) |-> IF s[k].skillId = id THEN s[k].count ELSE 0])

\* r is min(a / b * 100, 100), for b > 0
IsPercentage(r, a, b) ==
    IF a >= b
    THEN r = [num |-> 100, den |-> 1]
    ELSE r.den > 0 /\ r.num * b = a * 100 * r.den

\* C7: for a skill with weeklyGoal >= 1, calculateSkillProgress returns
\* completedCount = the uncapped sum of count over the week-filtered logs of
\* the skill, progressPercentage = min(completedCount / weeklyGoal * 100, 100)
\* and isComplete = (completedCount >= weeklyGoal); goal 5 with total 3 gives
\* 3, 60, false and goal 5 with total 8 gives 8, 100, true.
C7_SkillProgress ==
    LET r == ReportNow
        weekLogs == WeekLogsNow
        allSkills == getSkills
    IN  \A i \in 1..Len(allSkills) :
            LET skill == allSkills[i]
                p     == r.skills[i]
                total == Executions(weekLogs, skill.id)
            IN  skill.weeklyGoal >= 1 =>
                  /\ p.completedCount = total
                  /\ IsPercentage(p.progressPercentage, total,
                                  skill.weeklyGoal)
                  /\ p.isComplete = (total >= skill.weeklyGoal)
                  /\ (skill.weeklyGoal = 5 /\ total = 3) =>
                         /\ p.completedCount = 3
                         /\ p.progressPercentage = [num |-> 60, den |-> 1]
                         /\ ~p.isComplete
                  /\ (skill.weeklyGoal = 5 /\ total = 8) =>
                         /\ p.completedCount = 8
                         /\ p.progressPercentage = [num |-> 100, den |-> 1]
                         /\ p.isComplete

\* the report on display is of the store as it is, and a skill with goal 5
\* has 8 executions in the week
C7_Witness ==
    /\ report = <<ReportNow>>
    /\ \E i \in 1..Len(getSkills) :
           /\ getSkills[i].weeklyGoal = 5
           /\ Executions(WeekLogsNow, getSkills[i].id) = 8
           /\ report[1].skills[i].completedCount = 8

\* C8: for a skill with weeklyGoal = 0, whatever the logs,
\* calculateSkillProgress returns progressPercentage = 0, and
\* generateWeeklyReport with totalGoal = 0 returns overallProgress = 0.
C8_NoGoalNoDivision ==
    LET r == ReportNow
        allSkills == getSkills
    IN  /\ \A i \in 1..Len(allSkills) :
               allSkills[i].weeklyGoal = 0 =>
                   r.skills[i].progressPercentage = [num |-> 0, den |-> 1]
        /\ r.totalGoal = 0 => r.overallProgress = [num |-> 0, den |-> 1]

\* the report on display is of the store as it is, no skill has a goal and
\* one of them has executions in the week
C8_Witness ==
    /\ report = <<ReportNow>>
    /\ report[1].totalGoal = 0
    /\ \E i \in 1..Len(getSkills) :
           /\ getSkills[i].weeklyGoal = 0
           /\ report[1].skills[i].completedCount > 0

\* C9: generateWeeklyReport returns totalGoal = the sum of weeklyGoal over
\* the skills, totalCompleted = the sum of completedCount over the
\* SkillProgress entries, and overallProgress =
\* min(totalCompleted / totalGoal * 100, 100) when totalGoal > 0, else 0;
\* goals 4 and 6 with completed 4 and 3 give 10, 7 and 70; no skills give an
\* empty skills sequence and overallProgress 0.
C9_ReportTotals ==
    LET r == ReportNow
        allSkills == getSkills
    IN  /\ Len(r.skills) = Len(allSkills)
        /\ r.totalGoal =
               SumSeq([i \in 1..Len(allSkills) |-> allSkills[i].weeklyGoal])
        /\ r.totalCompleted =
               SumSeq([i \in 1..Len(r.skills) |-> r.skills[i].completedCount])
        /\ IF r.totalGoal > 0
           THEN IsPercentage(r.overallProgress, r.totalCompleted, r.totalGoal)
           ELSE r.overallProgress = [num |-> 0, den |-> 1]
        /\ allSkills = <<>> =>
               r.skills = <<>> /\ r.overallProgress = [num |-> 0, den |-> 1]
        /\ (/\ Len(allSkills) = 2
            /\ {allSkills[1].weeklyGoal, allSkills[2].weeklyGoal} = {4, 6}
            /\ \A i \in 1..2 :
                   r.skills[i].completedCount =
                       IF allSkills[i].weeklyGoal = 4 THEN 4 ELSE 3)
           => /\ r.totalGoal = 10
              /\ r.totalCompleted = 7
              /\ r.overallProgress = [num |-> 70, den |-> 1]

\* the report on display is of the store as it is: goals 4 and 6, completed
\* 4 and 3
C9_Witness ==
    /\ report = <<ReportNow>>
    /\ Len(getSkills) = 2
    /\ getSkills[1].weeklyGoal = 4 /\ report[1].skills[1].completedCount = 4
    /\ getSkills[2].weeklyGoal = 6 /\ report[1].skills[2].completedCount = 3
    /\ report[1].totalCompleted = 7

\* the i-th date of the week of today, Monday first, as YYYY-MM-DD:
\* 1970-01-01, day 0, was a Thursday
WeekDay(i) ==
    formatDateToString(
        [Noon EXCEPT !.day = today.day - ((today.day + 3) % 7) + (i - 1)])

\* C10: dailyBreakdown has exactly one entry per date of the week, Monday to
\* Sunday in that order, and an entry's count is the count of the skill's
\* log for that date (of the first one, should the store hold several), or
\* 0 when the skill has no log on that date.
C10_DailyBreakdown ==
    LET r == ReportNow
        allSkills == getSkills
        allLogs == getLogs
        week == [d \in 1..7 |-> WeekDay(d)]
    IN  \A i \in 1..Len(allSkills) :
            LET b == r.skills[i].dailyBreakdown
            IN  /\ Len(b) = 7
                /\ \A d \in 1..7 :
                       LET of == PairLogs(allLogs, allSkills[i].id, week[d])
                       IN  /\ b[d].date = week[d]
                           /\ IF of = {}
                              THEN b[d].count = 0
                              ELSE \E k \in of :
                                       /\ \A j \in of : k <= j
                                       /\ b[d].count = allLogs[k].count

\* the report on display is of the store as it is, and a skill's breakdown
\* holds a day with executions and a day with none
C10_Witness ==
    /\ report = <<ReportNow>>
    /\ \E i \in 1..Len(getSkills) :
           \E d, e \in 1..7 :
               /\ report[1].skills[i].dailyBreakdown[d].count > 0
               /\ report[1].skills[i].dailyBreakdown[e].count = 0
               /\ PairLogs(getLogs, getSkills[i].id, WeekDay(d)) # {}

\* Monday = 1 ... Sunday = 7 for the clock's day: 1970-01-01, day 0, was a
\* Thursday
DaysElapsed == ((today.day + 3) % 7) + 1

\* C11: the status of a skill's progress is 'complete' when isComplete;
\* otherwise, with daysElapsed = 1 for Monday through 7 for Sunday, it is
\* 'on-track' iff completedCount >= (daysElapsed / 7) * weeklyGoal and
\* 'behind' otherwise; goal 7 on a Wednesday gives 'on-track' for 3 and
\* 'behind' for 2 executions.
C11_ProgressStatus ==
    report # NULL =>
        \A i \in 1..Len(report[1].skills) :
            LET p == report[1].skills[i]
                status == getProgressStatus(p, today)
            IN  /\ p.isComplete => status = "complete"
                /\ ~p.isComplete =>
                       /\ status \in {"on-track", "behind"}
                       /\ status = "on-track" <=>
                              7 * p.completedCount >= DaysElapsed * p.weeklyGoal
                /\ (p.weeklyGoal = 7 /\ DaysElapsed = 3) =>
                       /\ p.completedCount = 3 => status = "on-track"
                       /\ p.completedCount = 2 => status = "behind"

\* a Wednesday: the report on display has a skill with goal 7 and 3
\* executions, whose status is 'on-track'
C11_Witness ==
    /\ DaysElapsed = 3
    /\ report # NULL
    /\ \E i \in 1..Len(report[1].skills) :
           /\ report[1].skills[i].weeklyGoal = 7
           /\ report[1].skills[i].completedCount = 3
           /\ getProgressStatus(report[1].skills[i], today) = "on-track"


\* the day number of the Monday of the clock's week
MondayDay == today.day - ((today.day + 3) % 7)

\* the calendar day that log's date names is one of the seven of the week
InWeek(log) ==
    LET n == parseDate(log.date).day
    IN  MondayDay <= n /\ n <= MondayDay + 6

\* C12: a log contributes to the current week's report iff its date lies in
\* the inclusive range from the week's Monday to its Sunday: logs dated on
\* the Monday and on the Sunday are counted, a log dated the day before the
\* Monday or the day after the Sunday is not.
C12_WeekIsInclusive ==
    LET r == ReportNow
        allSkills == getSkills
        allLogs == getLogs
        inWeek == SelectSeq(allLogs, InWeek)
    IN  /\ \A i \in 1..Len(allSkills) :
               r.skills[i].completedCount = Executions(inWeek, allSkills[i].id)
        /\ \A k \in 1..Len(allLogs) :
               LET n == parseDate(allLogs[k].date).day
                   counted ==
                       \E i \in 1..Len(allSkills) :
                           /\ allSkills[i].id = allLogs[k].skillId
                           /\ r.skills[i].completedCount >= allLogs[k].count
                           /\ \E d \in 1..7 :
                                  /\ r.skills[i].dailyBreakdown[d].date =
                                         allLogs[k].date
                                  /\ r.skills[i].dailyBreakdown[d].count > 0
                   known == \E i \in 1..Len(allSkills) :
                                allSkills[i].id = allLogs[k].skillId
               IN  /\ (known /\ n \in {MondayDay, MondayDay + 6}) => counted
                   /\ n \in {MondayDay - 1, MondayDay + 7} =>
                          \A i \in 1..Len(allSkills) :
                              \A d \in 1..7 :
                                  r.skills[i].dailyBreakdown[d].date #
                                      allLogs[k].date

\* the report on display is of the store as it is: a skill's log dated the
\* week's Monday is counted and its log dated the day after the week's
\* Sunday is not
C12_Witness ==
    /\ report = <<ReportNow>>
    /\ \E i \in 1..Len(getSkills) :
           \E j, k \in 1..Len(getLogs) :
               /\ getLogs[j].skillId = getSkills[i].id
               /\ getLogs[k].skillId = getSkills[i].id
               /\ parseDate(getLogs[j].date).day = MondayDay
               /\ parseDate(getLogs[k].date).day = MondayDay + 7
               /\ report[1].skills[i].completedCount = getLogs[j].count


\* log is of a skill that the store holds
Attributed(log) ==
    \E i \in 1..Len(getSkills) : getSkills[i].id = log.skillId

\* C13: a log whose skillId matches no skill in the store is left out of
\* the report: it adds to no completedCount, to no dailyBreakdown entry and
\* not to totalCompleted, and the report is generated all the same, with
\* one entry per skill.
C13_DanglingLogsLeftOut ==
    LET r == ReportNow
        allSkills == getSkills
        attributed ==
            SelectSeq(getLogsInDateRange(storeLogs, r.startDate, r.endDate),
                      Attributed)
    IN  /\ Len(r.skills) = Len(allSkills)
        /\ r.totalCompleted =
               SumSeq([k \in 1..Len(attributed) |-> attributed[k].count])
        /\ \A i \in 1..Len(allSkills) :
               /\ r.skills[i].completedCount =
                      Executions(attributed, allSkills[i].id)
               /\ \A d \in 1..7 :
                      r.skills[i].dailyBreakdown[d].count > 0 =>
                          \E k \in 1..Len(attributed) :
                              /\ attributed[k].skillId = allSkills[i].id
                              /\ attributed[k].date =
                                     r.skills[i].dailyBreakdown[d].date

\* the report on display is of the store as it is: the week holds a log of
\* a skill the store holds and a log of a skill it does not hold, and the
\* total is the former's count
C13_Witness ==
    /\ report = <<ReportNow>>
    /\ \E j, k \in 1..Len(WeekLogsNow) :
           /\ Attributed(WeekLogsNow[j])
           /\ ~Attributed(WeekLogsNow[k])
           /\ report[1].totalCompleted = WeekLogsNow[j].count


\* C14: getWeekDates(getWeekStart(d)) has exactly 7 elements, strictly
\* increasing, consecutive calendar days, the first the date of
\* getWeekStart(d) and the last the date of getWeekEnd(d), also across the
\* end of a month and of a year.
C14_WeekDates ==
    LET dates == getWeekDates(getWeekStart(today))
    IN  /\ Len(dates) = 7
        /\ \A i \in 1..6 : StrLess(dates[i], dates[i + 1])
        /\ \A i \in 1..7 :
               dates[i] =
                   formatDateToString([day |-> MondayDay + i - 1, ms |-> 0])
        /\ dates[1] = formatDateToString(getWeekStart(today))
        /\ dates[7] = formatDateToString(getWeekEnd(today))

\* the report on display is of a week that starts in one year and ends in
\* the next: its breakdown runs over the dates from 2024-12-30 to 2025-01-05
C14_Witness ==
    /\ report # NULL
    /\ getFullYear(getWeekStart(today)) = 2024
    /\ getFullYear(getWeekEnd(today)) = 2025
    /\ Len(report[1].skills) > 0
    /\ report[1].skills[1].dailyBreakdown[1].date = report[1].startDate
    /\ report[1].skills[1].dailyBreakdown[7].date = report[1].endDate
    /\ report[1].skills[1].dailyBreakdown[7].date =
           <<50, 48, 50, 53, DASH, 48, 49, DASH, 48, 53>>

\* C15: getWeekStart(d) is the Monday on or before d, at most 6 days
\* earlier (6 days for a Sunday), at midnight, and getWeekStart is
\* idempotent.
C15_WeekStart ==
    LET start == getWeekStart(today)
    IN  /\ getDay(start) = 1
        /\ start.ms = 0
        /\ start.day <= today.day
        /\ today.day - start.day <= 6
        /\ getDay(today) = 0 => today.day - start.day = 6
        /\ getDay(today) = 1 => start.day = today.day
        /\ getWeekStart(start) = start

\* a Sunday, past midnight: the report on display starts on the Monday six
\* days earlier
C15_Witness ==
    /\ getDay(today) = 0
    /\ today.ms > 0
    /\ report # NULL
    /\ report[1].startDate =
           formatDateToString([day |-> today.day - 6, ms |-> 0])


\* C16: parseDate(formatDateToString(d)) is the same calendar day as d, for
\* the clock's date d, and formatDateToString(parseDate(s)) = s for every
\* date string s that a log holds.
C16_RoundTrip ==
    /\ parseDate(formatDateToString(today)).day = today.day
    /\ \A i \in 1..Len(getLogs) :
           formatDateToString(parseDate(getLogs[i].date)) = getLogs[i].date


\* the item is missing or does not decode
Unreadable(item) == item.kind \in {"absent", "corrupt"}

C18_FailedWritesLeaveStateSound ==
    storageFull =>
        \A i \in 1..Len(logs) :
            PairLogs(logs, logs[i].skillId, logs[i].date) = {i}


\* the ids of the skills in s
SkillIds(s) == {s[i].id : i \in 1..Len(s)}

\* C19: a skill that has been deleted stays deleted: whatever the user does
\* next, no skill with an id that was created earlier and is no longer in
\* the page's skills is in them afterwards.
C19_DeletedSkillStaysDeleted ==
    [][\A k \in 1..skillsMade :
          generateId("skill", k - 1) \notin SkillIds(skills) =>
              generateId("skill", k - 1) \notin SkillIds(skills')]_vars

\* the ids of the logs that the store holds
StoredLogIds == {getLogs[j].id : j \in 1..Len(getLogs)}

\* the ids of the logs that the store holds after the step
StoredLogIdsAfter ==
    {getFromStorage(storeLogs', <<>>)[j].id :
        j \in 1..Len(getFromStorage(storeLogs', <<>>))}

\* the i-th log of the page was in the store and the cascade of deleteSkill
\* took it out: a log added after it is in the store (the effect of useLogs
\* writes all the page's logs), and it is not
TakenOut(i) ==
    /\ logs[i].id \notin StoredLogIds
    /\ \E j \in (i + 1)..Len(logs) : logs[j].id \in StoredLogIds

\* C20: every write of the logs starts from what the store holds just
\* before it, so that no write discards a change that another path made to
\* the store: a log that the cascade of deleteSkill took out of the store
\* is not put back by a later write of quick-log or detailed-log.
C20_NoWriteDiscardsTheCascade ==
    [][\A i \in 1..Len(logs) :
          TakenOut(i) => logs[i].id \notin StoredLogIdsAfter]_vars

\* the logs of skill id among s hold at most one log per date
OnePerDate(s, id) ==
    \A j \in 1..Len(s) :
        s[j].skillId = id => PairLogs(s, id, s[j].date) = {j}

\* C21: when the week-filtered logs hold at most one log per (skillId,
\* date) and each is dated one of the week's 7 dates, the counts of a
\* skill's dailyBreakdown add up to its completedCount; with two logs of
\* the skill on one date the breakdown, which takes the first, adds up to
\* less.
C21_BreakdownAddsUp ==
    LET r == ReportNow
        allSkills == getSkills
        weekLogs == getLogsInDateRange(storeLogs, r.startDate, r.endDate)
    IN  \A i \in 1..Len(allSkills) :
            LET b == r.skills[i].dailyBreakdown
                total == SumSeq([d \in 1..Len(b) |-> b[d].count])
            IN  IF /\ OnePerDate(weekLogs, allSkills[i].id)
                   /\ \A j \in 1..Len(weekLogs) : InWeek(weekLogs[j])
                THEN total = r.skills[i].completedCount
                ELSE total < r.skills[i].completedCount

\* the report on display is of the store as it is: a skill has logs on two
\* dates of the week, one per date, and its breakdown adds up to their
\* counts
C21_Witness ==
    /\ report = <<ReportNow>>
    /\ \E i \in 1..Len(getSkills) :
           /\ OnePerDate(WeekLogsNow, getSkills[i].id)
           /\ \E j, k \in 1..Len(WeekLogsNow) :
                  /\ WeekLogsNow[j].skillId = getSkills[i].id
                  /\ WeekLogsNow[k].skillId = getSkills[i].id
                  /\ WeekLogsNow[j].date # WeekLogsNow[k].date
                  /\ report[1].skills[i].completedCount =
                         WeekLogsNow[j].count + WeekLogsNow[k].count
           /\ SumSeq([d \in 1..7 |->
                         report[1].skills[i].dailyBreakdown[d].count]) =
                  report[1].skills[i].completedCount

\* C22: on a Sunday (daysElapsed = 7) the status of a SkillProgress that
\* calculateSkillProgress made is never 'on-track': it is 'complete' when
\* completedCount >= weeklyGoal and 'behind' otherwise.
C22_SundayIsCompleteOrBehind ==
    (DaysElapsed = 7 /\ report # NULL) =>
        \A i \in 1..Len(report[1].skills) :
            LET p == report[1].skills[i]
                status == getProgressStatus(p, today)
            IN  /\ status # "on-track"
                /\ status = IF p.completedCount >= p.weeklyGoal
                            THEN "complete" ELSE "behind"

\* a Sunday: the report on display has a skill with goal 7 and 3
\* executions, whose status is 'behind'
C22_Witness ==
    /\ DaysElapsed = 7
    /\ getDay(today) = 0
    /\ report # NULL
    /\ \E i \in 1..Len(report[1].skills) :
           /\ report[1].skills[i].weeklyGoal = 7
           /\ report[1].skills[i].completedCount = 3
           /\ getProgressStatus(report[1].skills[i], today) = "behind"


==========================================================================
